---- MODULE Spec2Model ----
(***************************************************************************)
(* Blogicum: the request handlers of blog/views.py over the stored posts,  *)
(* comments, categories and users.  Every handler is an operator from the  *)
(* current database and the request's inputs to the new database and the   *)
(* response; the actions apply the handlers.                               *)
(*                                                                         *)
(* A post is modelled by the fields the handlers read or write: author,    *)
(* category, pub_date, is_published (title, text, location and image are   *)
(* carried through unchanged by every handler and are left out).  A        *)
(* comment is modelled by author, post and text.                           *)
(***************************************************************************)
EXTENDS Integers, Sequences, FiniteSets, TLC

VARIABLES users, categories, posts, comments, nextPostId, nextCommentId, now, last

vars == <<users, categories, posts, comments, nextPostId, nextCommentId, now, last>>

dbvars == <<users, categories, posts, comments, nextPostId, nextCommentId>>

--------------------------------------------------------------------------
(* Bounds of the model *)

MaxPosts == 2

MaxComments == 2

MaxTime == 2

MaxListing == 25

MaxPage == 4

(* Program constant: the page size of every listing *)
paginate_by == 10

--------------------------------------------------------------------------
(* The universe the inputs are drawn from *)

Anonymous == 0

UserIds == {1, 2}

Requesters == UserIds \cup {Anonymous}

Usernames == {"alice", "bob", "carol"}

Slugs == {"news", "draft", "ghost"}

NoCategory == "-"

Dates == 1 .. MaxTime

Texts == {"", "nice", "ok"}

NoPage == -1

LastPage == -2

JunkPage == -3

PageInputs == {NoPage, LastPage, JunkPage} \cup (0 .. MaxPage)

--------------------------------------------------------------------------
(* Responses *)

NoTarget == [view |-> "-", pk |-> 0, username |-> "-"]

NoPageObj ==
    [object_list |-> << >>, number |-> 0, num_pages |-> 0,
     has_next |-> FALSE, has_previous |-> FALSE]

Response(op, status, target, page) ==
    [op |-> op, status |-> status, target |-> target, page_obj |-> page]

Redirect(op, view, pk, username) ==
    Response(op, "redirect", [view |-> view, pk |-> pk, username |-> username], NoPageObj)

RedirectToLogin(op) ==
    Response(op, "login_redirect", [view |-> "login", pk |-> 0, username |-> "-"], NoPageObj)

Http404(op) == Response(op, "not_found", NoTarget, NoPageObj)

PermissionDenied(op) == Response(op, "forbidden", NoTarget, NoPageObj)

FormInvalid(op) == Response(op, "form_invalid", NoTarget, NoPageObj)

Rendered(op, page) == Response(op, "ok", NoTarget, page)

(* The database as one value, and a handler's result *)
Db ==
    [users |-> users, posts |-> posts, comments |-> comments,
     nextPostId |-> nextPostId, nextCommentId |-> nextCommentId]

Result(db, resp) == [db |-> db, resp |-> resp]

--------------------------------------------------------------------------
(* Query composition: filter, join, annotate, order *)

Null == 0

(* The rows of Post LEFT OUTER JOIN Comment for one post: one row per
   comment of the post, or a single row with a NULL comment. *)
JoinComments(pk) ==
    LET rows == {c \in DOMAIN comments : comments[c].post = pk}
    IN  IF rows = {} THEN {Null} ELSE rows

(* A count of the joined rows themselves, which counts the NULL row too *)
Count_rows(pk) == Cardinality(JoinComments(pk))

(* Count('comments'): COUNT over the joined comment id, which skips NULL *)
Count_comments(pk) == Cardinality(JoinComments(pk) \ {Null})

(* .annotate(comment_count=Count('comments')) *)
annotate(pk) == [pk |-> pk, comment_count |-> Count_comments(pk)]

(* p comes before q under order_by('-pub_date'); rows with equal pub_date
   are taken in primary-key order *)
Before(p, q) ==
    \/ posts[p].pub_date > posts[q].pub_date
    \/ posts[p].pub_date = posts[q].pub_date /\ p < q

RECURSIVE order_by_pub_date_desc(_)
order_by_pub_date_desc(S) ==
    IF S = {} THEN << >>
    ELSE LET first == CHOOSE p \in S : \A q \in S \ {p} : Before(p, q)
         IN  <<annotate(first)>> \o order_by_pub_date_desc(S \ {first})

(* The index query without its pub_date__lte filter *)
PostListView_no_date_filter ==
    order_by_pub_date_desc(
        {pk \in DOMAIN posts :
            /\ posts[pk].is_published
            /\ posts[pk].category \in DOMAIN categories
            /\ categories[posts[pk].category].is_published})

(* PostListView.get_queryset: is_published, category__is_published (an
   inner join, so a post without category is dropped), pub_date__lte=now *)
PostListView_get_queryset ==
    order_by_pub_date_desc(
        {pk \in DOMAIN posts :
            /\ posts[pk].is_published
            /\ posts[pk].category \in DOMAIN categories
            /\ categories[posts[pk].category].is_published
            /\ posts[pk].pub_date <= now})

(* The category lookup without is_published=True *)
CategoryFound_any(slug) == slug \in DOMAIN categories

(* get_object_or_404(Category, slug=..., is_published=True) *)
CategoryFound(slug) ==
    slug \in DOMAIN categories /\ categories[slug].is_published

(* CategoryListView.get_queryset after the category was found *)
CategoryListView_get_queryset(slug) ==
    order_by_pub_date_desc(
        {pk \in DOMAIN posts :
            /\ posts[pk].category = slug
            /\ posts[pk].is_published
            /\ posts[pk].pub_date <= now})

(* DetailView.get_object with slug_field = 'username' *)
UserByUsername(username) == {u \in DOMAIN users : users[u] = username}

(* The profile query with the public listings' is_published filter *)
Profile_posts_published(u) ==
    order_by_pub_date_desc(
        {pk \in DOMAIN posts : posts[pk].author = u /\ posts[pk].is_published})

(* ProfileDetailView: the prefetched user.posts, annotated and ordered,
   with no filter *)
Profile_posts(u) ==
    order_by_pub_date_desc({pk \in DOMAIN posts : posts[pk].author = u})

--------------------------------------------------------------------------
(* Pagination *)

(* Paginator.num_pages: ceil(max(1, count) / per_page) *)
num_pages(object_list) ==
    LET hits == IF Len(object_list) = 0 THEN 1 ELSE Len(object_list)
    IN  (hits + paginate_by - 1) \div paginate_by

(* Paginator.validate_number *)
validate_number(object_list, number) ==
    IF number \in {NoPage, LastPage, JunkPage} THEN "PageNotAnInteger"
    ELSE IF number < 1 THEN "EmptyPage"
    ELSE IF number > num_pages(object_list) THEN "EmptyPage"
    ELSE "valid"

(* The page cut with the page number taken as 0-based *)
Paginator_page_zero_based(object_list, number) ==
    LET bottom == number * paginate_by
        top    == IF bottom + paginate_by >= Len(object_list)
                  THEN Len(object_list) ELSE bottom + paginate_by
    IN  [object_list  |-> SubSeq(object_list, bottom + 1, top),
         number       |-> number,
         num_pages    |-> num_pages(object_list),
         has_next     |-> number < num_pages(object_list),
         has_previous |-> number > 1]

(* Paginator.page(number) for a valid number *)
Paginator_page(object_list, number) ==
    LET bottom == (number - 1) * paginate_by
        top    == IF bottom + paginate_by >= Len(object_list)
                  THEN Len(object_list) ELSE bottom + paginate_by
    IN  [object_list  |-> SubSeq(object_list, bottom + 1, top),
         number       |-> number,
         num_pages    |-> num_pages(object_list),
         has_next     |-> number < num_pages(object_list),
         has_previous |-> number > 1]

(* Paginator.get_page: a page that is no integer becomes page 1, an
   out-of-range one the last page *)
Paginator_get_page(object_list, number) ==
    LET v == validate_number(object_list, number)
    IN  IF v = "PageNotAnInteger" THEN Paginator_page(object_list, 1)
        ELSE IF v = "EmptyPage"
             THEN Paginator_page(object_list, num_pages(object_list))
        ELSE Paginator_page(object_list, number)

(* ListView.paginate_queryset with paginate_by = 10: page absent is 1,
   'last' is the last page, anything else invalid raises Http404 *)
paginate_queryset(op, object_list, page) ==
    LET page_number == IF page = NoPage THEN 1
                       ELSE IF page = LastPage THEN num_pages(object_list)
                       ELSE page
    IN  IF page = JunkPage THEN Http404(op)
        ELSE IF validate_number(object_list, page_number) # "valid" THEN Http404(op)
        ELSE Rendered(op, Paginator_page(object_list, page_number))

--------------------------------------------------------------------------
(* Read-only views *)

PostListView(page) ==
    Result(Db, paginate_queryset("index", PostListView_get_queryset, page))

CategoryListView(slug, page) ==
    IF ~CategoryFound(slug) THEN Result(Db, Http404("category"))
    ELSE Result(Db, paginate_queryset("category",
                                      CategoryListView_get_queryset(slug), page))

(* ProfileDetailView reads the profile named in the URL and never
   request.user *)
ProfileDetailView(user, username, page) ==
    IF UserByUsername(username) = {} THEN Result(Db, Http404("profile"))
    ELSE LET u == CHOOSE x \in UserByUsername(username) : TRUE
         IN  Result(Db, Rendered("profile",
                                 Paginator_get_page(Profile_posts(u), page)))

--------------------------------------------------------------------------
(* The gates of the mutating views *)

(* LoginRequiredMixin / @login_required: request.user.is_authenticated *)
is_authenticated(user) == user # Anonymous

(* The author gate letting every authenticated user through *)
test_func_any_user(object, user) == TRUE

(* AuthorRequiredMixin.test_func: self.get_object().author == request.user *)
test_func(object, user) == object.author = user

(* The text field accepting the empty text *)
text_is_valid_always(text) == TRUE

(* ModelForm validation of the one text field of a comment *)
text_is_valid(text) == text # ""

(* PostForm validation of the category choice: empty or a stored category *)
category_is_valid(category) ==
    category = NoCategory \/ category \in DOMAIN categories

(* The value a new post's is_published takes: the field is not in PostForm *)
DefaultIsPublished == TRUE

(* Comments the database removes together with post pk *)
CascadeDelete(pk) == {c \in DOMAIN comments : comments[c].post = pk}

Restrict(f, S) == [x \in S |-> f[x]]

--------------------------------------------------------------------------
(* Mutating views (POST requests) *)

(* PostCreateView: author = request.user, redirect to the author's profile *)
PostCreateView(user, category, pub_date) ==
    IF ~is_authenticated(user) THEN Result(Db, RedirectToLogin("post_create"))
    ELSE IF ~category_is_valid(category) THEN Result(Db, FormInvalid("post_create"))
    ELSE Result(
        [Db EXCEPT
            !.posts = nextPostId :>
                        [author |-> user, category |-> category,
                         pub_date |-> pub_date,
                         is_published |-> DefaultIsPublished] @@ posts,
            !.nextPostId = nextPostId + 1],
        Redirect("post_create", "profile", 0, users[user]))

(* The update view loading the post before it looks at the login *)
PostUpdateView_load_first(user, pk, category, pub_date) ==
    IF pk \notin DOMAIN posts THEN Result(Db, Http404("post_update"))
    ELSE IF ~is_authenticated(user) THEN Result(Db, RedirectToLogin("post_update"))
    ELSE IF ~test_func(posts[pk], user) THEN Result(Db, PermissionDenied("post_update"))
    ELSE IF ~category_is_valid(category) THEN Result(Db, FormInvalid("post_update"))
    ELSE Result(
        [Db EXCEPT !.posts = [posts EXCEPT ![pk].category = category,
                                           ![pk].pub_date = pub_date]],
        Redirect("post_update", "post_detail", pk, "-"))

(* PostUpdateView: login gate, then the author gate (which loads the post),
   then the form is saved; redirect to the post's detail page *)
PostUpdateView(user, pk, category, pub_date) ==
    IF ~is_authenticated(user) THEN Result(Db, RedirectToLogin("post_update"))
    ELSE IF pk \notin DOMAIN posts THEN Result(Db, Http404("post_update"))
    ELSE IF ~test_func(posts[pk], user) THEN Result(Db, PermissionDenied("post_update"))
    ELSE IF ~category_is_valid(category) THEN Result(Db, FormInvalid("post_update"))
    ELSE Result(
        [Db EXCEPT !.posts = [posts EXCEPT ![pk].category = category,
                                           ![pk].pub_date = pub_date]],
        Redirect("post_update", "post_detail", pk, "-"))

(* PostDeleteView: same gates; the post goes, and its comments with it;
   redirect to the index *)
PostDeleteView(user, pk) ==
    IF ~is_authenticated(user) THEN Result(Db, RedirectToLogin("post_delete"))
    ELSE IF pk \notin DOMAIN posts THEN Result(Db, Http404("post_delete"))
    ELSE IF ~test_func(posts[pk], user) THEN Result(Db, PermissionDenied("post_delete"))
    ELSE Result(
        [Db EXCEPT !.posts = Restrict(posts, DOMAIN posts \ {pk}),
                   !.comments = Restrict(comments,
                                         DOMAIN comments \ CascadeDelete(pk))],
        Redirect("post_delete", "index", 0, "-"))

(* add_comment without the lookup of the post *)
add_comment_no_lookup(user, pk, text) ==
    IF ~is_authenticated(user) THEN Result(Db, RedirectToLogin("add_comment"))
    ELSE IF text_is_valid(text)
    THEN Result(
        [Db EXCEPT
            !.comments = nextCommentId :>
                           [author |-> user, post |-> pk, text |-> text]
                         @@ comments,
            !.nextCommentId = nextCommentId + 1],
        Redirect("add_comment", "post_detail", pk, "-"))
    ELSE Result(Db, Redirect("add_comment", "post_detail", pk, "-"))

(* add_comment: login gate, get_object_or_404(Post, pk), save when the form
   is valid, redirect to the post's detail page either way *)
add_comment(user, pk, text) ==
    IF ~is_authenticated(user) THEN Result(Db, RedirectToLogin("add_comment"))
    ELSE IF pk \notin DOMAIN posts THEN Result(Db, Http404("add_comment"))
    ELSE IF text_is_valid(text)
    THEN Result(
        [Db EXCEPT
            !.comments = nextCommentId :>
                           [author |-> user, post |-> pk, text |-> text]
                         @@ comments,
            !.nextCommentId = nextCommentId + 1],
        Redirect("add_comment", "post_detail", pk, "-"))
    ELSE Result(Db, Redirect("add_comment", "post_detail", pk, "-"))

(* The comment update looking the comment up under the post of the URL *)
CommentUpdateView_within_post(user, post_id, comment_id, text) ==
    IF ~is_authenticated(user) THEN Result(Db, RedirectToLogin("comment_update"))
    ELSE IF comment_id \notin DOMAIN comments THEN Result(Db, Http404("comment_update"))
    ELSE IF comments[comment_id].post # post_id
         THEN Result(Db, Http404("comment_update"))
    ELSE IF ~test_func(comments[comment_id], user)
         THEN Result(Db, PermissionDenied("comment_update"))
    ELSE IF ~text_is_valid(text) THEN Result(Db, FormInvalid("comment_update"))
    ELSE Result(
        [Db EXCEPT !.comments = [comments EXCEPT ![comment_id].text = text]],
        Redirect("comment_update", "post_detail", comments[comment_id].post, "-"))

(* CommentUpdateView: pk_url_kwarg = 'comment_id'; post_id is the other
   number in the URL.  Redirect to the detail page of comment.post *)
CommentUpdateView(user, post_id, comment_id, text) ==
    IF ~is_authenticated(user) THEN Result(Db, RedirectToLogin("comment_update"))
    ELSE IF comment_id \notin DOMAIN comments THEN Result(Db, Http404("comment_update"))
    ELSE IF ~test_func(comments[comment_id], user)
         THEN Result(Db, PermissionDenied("comment_update"))
    ELSE IF ~text_is_valid(text) THEN Result(Db, FormInvalid("comment_update"))
    ELSE Result(
        [Db EXCEPT !.comments = [comments EXCEPT ![comment_id].text = text]],
        Redirect("comment_update", "post_detail", comments[comment_id].post, "-"))

(* CommentDeleteView *)
CommentDeleteView(user, post_id, comment_id) ==
    IF ~is_authenticated(user) THEN Result(Db, RedirectToLogin("comment_delete"))
    ELSE IF comment_id \notin DOMAIN comments THEN Result(Db, Http404("comment_delete"))
    ELSE IF ~test_func(comments[comment_id], user)
         THEN Result(Db, PermissionDenied("comment_delete"))
    ELSE Result(
        [Db EXCEPT !.comments = Restrict(comments, DOMAIN comments \ {comment_id})],
        Redirect("comment_delete", "post_detail", comments[comment_id].post, "-"))

(* ProfileUpdateView: the object is request.user; the username must stay
   unique; redirect to the profile under the new username *)
ProfileUpdateView(user, username) ==
    IF ~is_authenticated(user) THEN Result(Db, RedirectToLogin("profile_update"))
    ELSE IF UserByUsername(username) \ {user} # {}
         THEN Result(Db, FormInvalid("profile_update"))
    ELSE Result([Db EXCEPT !.users = [users EXCEPT ![user] = username]],
                Redirect("profile_update", "profile", 0, username))

--------------------------------------------------------------------------
(* State machine *)

(* last: what the last request named in its URL (the slug or username,
   and the post id of a comment URL) and the response it got *)
Exchange(arg, post_id, resp) ==
    [arg |-> arg, post_id |-> post_id, response |-> resp]

NoRequest == Exchange("-", 0, Response("-", "-", NoTarget, NoPageObj))

Event(op) == Exchange("-", 0, Response(op, "-", NoTarget, NoPageObj))

Init ==
    /\ users = (1 :> "alice" @@ 2 :> "bob")
    /\ categories = ("news" :> [is_published |-> TRUE]
                     @@ "draft" :> [is_published |-> FALSE])
    /\ posts = << >>
    /\ comments = << >>
    /\ nextPostId = 1
    /\ nextCommentId = 1
    /\ now = 1
    /\ last = NoRequest

(* A request is handled: the database becomes the handler's, the response
   is kept in last *)
Apply(result, arg, post_id) ==
    /\ users' = result.db.users
    /\ posts' = result.db.posts
    /\ comments' = result.db.comments
    /\ nextPostId' = result.db.nextPostId
    /\ nextCommentId' = result.db.nextCommentId
    /\ last' = Exchange(arg, post_id, result.resp)
    /\ UNCHANGED <<categories, now>>

PostCreate(user, category, pub_date) ==
    /\ nextPostId <= MaxPosts
    /\ Apply(PostCreateView(user, category, pub_date), "-", 0)

PostUpdate(user, pk, category, pub_date) ==
    Apply(PostUpdateView(user, pk, category, pub_date), "-", 0)

PostDelete(user, pk) == Apply(PostDeleteView(user, pk), "-", 0)

AddComment(user, pk, text) ==
    /\ nextCommentId <= MaxComments
    /\ Apply(add_comment(user, pk, text), "-", 0)

CommentUpdate(user, post_id, comment_id, text) ==
    Apply(CommentUpdateView(user, post_id, comment_id, text), "-", post_id)

CommentDelete(user, post_id, comment_id) ==
    Apply(CommentDeleteView(user, post_id, comment_id), "-", post_id)

ProfileUpdate(user, username) ==
    Apply(ProfileUpdateView(user, username), "-", 0)

ViewIndex(page) == Apply(PostListView(page), "-", 0)

ViewCategory(slug, page) == Apply(CategoryListView(slug, page), slug, 0)

ViewProfile(user, username, page) ==
    Apply(ProfileDetailView(user, username, page), username, 0)

(* The admin site switches a post's is_published *)
AdminSetPublished(pk, flag) ==
    /\ pk \in DOMAIN posts
    /\ posts' = [posts EXCEPT ![pk].is_published = flag]
    /\ last' = Event("admin")
    /\ UNCHANGED <<users, categories, comments, nextPostId, nextCommentId, now>>

(* timezone.now() advances *)
Tick ==
    /\ now < MaxTime
    /\ now' = now + 1
    /\ last' = Event("clock")
    /\ UNCHANGED dbvars

(* Ownership and comments: every mutating view, by the two users and by an
   anonymous requester, on posts of a published and of an unpublished
   category; the listings on their first page *)
Next ==
    \/ \E u \in Requesters, c \in {"news", "draft"} : PostCreate(u, c, 1)
    \/ \E u \in Requesters, pk \in 1 .. MaxPosts, c \in {"news", "draft"} :
          PostUpdate(u, pk, c, 1)
    \/ \E u \in Requesters, pk \in 1 .. MaxPosts : PostDelete(u, pk)
    \/ \E u \in Requesters, pk \in 1 .. MaxPosts, t \in Texts : AddComment(u, pk, t)
    \/ \E u \in Requesters, p \in 1 .. MaxPosts, c \in 1 .. MaxComments, t \in Texts :
          CommentUpdate(u, p, c, t)
    \/ \E u \in Requesters, p \in 1 .. MaxPosts, c \in 1 .. MaxComments :
          CommentDelete(u, p, c)
    \/ \E u \in Requesters, n \in {"alice", "bob"} : ProfileUpdate(u, n)
    \/ ViewIndex(NoPage)
    \/ ViewCategory("news", NoPage)
    \/ \E n \in {"alice", "bob"} : ViewProfile(Anonymous, n, NoPage)

Spec == Init /\ [][Next]_vars

--------------------------------------------------------------------------
(* Visibility: posts of every category choice and date, the admin's
   is_published switch, the clock, and the two filtered listings, also on
   a page past the last *)
NextVis ==
    \/ \E u \in UserIds, c \in {"news", "draft", NoCategory}, d \in Dates :
          PostCreate(u, c, d)
    \/ \E u \in UserIds, pk \in 1 .. MaxPosts,
          c \in {"news", "draft", NoCategory}, d \in Dates :
          PostUpdate(u, pk, c, d)
    \/ \E pk \in 1 .. MaxPosts, flag \in BOOLEAN : AdminSetPublished(pk, flag)
    \/ Tick
    \/ \E page \in {NoPage, 2} : ViewIndex(page)
    \/ \E slug \in Slugs, page \in {NoPage, 2} : ViewCategory(slug, page)

SpecVis == Init /\ [][NextVis]_vars

(* Profiles: posts of every visibility, users who change their username,
   and the profile listing asked for by anybody *)
NextProfile ==
    \/ \E u \in UserIds, c \in {"news", "draft", NoCategory}, d \in Dates :
          PostCreate(u, c, d)
    \/ \E pk \in 1 .. MaxPosts, flag \in BOOLEAN : AdminSetPublished(pk, flag)
    \/ \E u \in UserIds, n \in Usernames : ProfileUpdate(u, n)
    \/ \E r \in Requesters, n \in Usernames : ViewProfile(r, n, NoPage)

SpecProfile == Init /\ [][NextProfile]_vars

(* Pagination: a database of n visible posts of one author and category,
   with distinct publication dates in no particular order of id, and every
   kind of page parameter *)
PageDate(i) == (i * 7) % (MaxListing + 4)

InitPage ==
    \E n \in 0 .. MaxListing :
        /\ users = (1 :> "alice" @@ 2 :> "bob")
        /\ categories = ("news" :> [is_published |-> TRUE]
                         @@ "draft" :> [is_published |-> FALSE])
        /\ posts = [i \in 1 .. n |->
                      [author |-> 1, category |-> "news",
                       pub_date |-> PageDate(i), is_published |-> TRUE]]
        /\ comments = << >>
        /\ nextPostId = n + 1
        /\ nextCommentId = 1
        /\ now = MaxListing + 4
        /\ last = NoRequest

NextPage ==
    \/ \E page \in PageInputs : ViewIndex(page)
    \/ \E page \in PageInputs : ViewCategory("news", page)
    \/ \E page \in PageInputs : ViewProfile(Anonymous, "alice", page)

SpecPage == InitPage /\ [][NextPage]_vars

--------------------------------------------------------------------------
(* Properties *)

(* The primary keys a listing holds, and a listing without repetition *)
Pks(object_list) == {object_list[i].pk : i \in 1 .. Len(object_list)}

NoRepeat(object_list) ==
    \A i, j \in 1 .. Len(object_list) :
        object_list[i].pk = object_list[j].pk => i = j

CategoryPublished(slug) ==
    slug \in DOMAIN categories /\ categories[slug].is_published

(* The visibility predicate of the data model at the current time *)
Visible(pk) ==
    /\ posts[pk].is_published
    /\ posts[pk].category # NoCategory
    /\ CategoryPublished(posts[pk].category)
    /\ posts[pk].pub_date <= now

(* C1: at every time, a post is in the index listing iff it is published,
   its category exists and is published, and its pub_date is not after now;
   the listing of a published category holds exactly the visible posts of
   that category; the index page a reader was just served shows them. *)
C1_ListingsShowExactlyVisible ==
    /\ NoRepeat(PostListView_get_queryset)
    /\ Pks(PostListView_get_queryset) = {pk \in DOMAIN posts : Visible(pk)}
    /\ \A slug \in Slugs :
          CategoryPublished(slug) =>
            /\ NoRepeat(CategoryListView_get_queryset(slug))
            /\ Pks(CategoryListView_get_queryset(slug))
                 = {pk \in DOMAIN posts : Visible(pk) /\ posts[pk].category = slug}
    /\ (last.response.op = "index" /\ last.response.status = "ok"
        /\ Cardinality(DOMAIN posts) <= paginate_by)
         => Pks(last.response.page_obj.object_list)
              = {pk \in DOMAIN posts : Visible(pk)}

(* C1 witness: the clock has just reached the pub_date of a post, which is
   now in the index and in its category's listing, while a published post
   without category is in neither. *)
C1_Witness ==
    /\ last.response.op = "clock"
    /\ \E pk \in DOMAIN posts :
          /\ posts[pk].pub_date = now
          /\ now > 1
          /\ pk \in Pks(PostListView_get_queryset)
          /\ pk \in Pks(CategoryListView_get_queryset("news"))
    /\ \E pk \in DOMAIN posts :
          /\ posts[pk].category = NoCategory
          /\ posts[pk].is_published
          /\ pk \notin Pks(PostListView_get_queryset)

(* The page parameters ListView accepts for a listing of n rows *)
ValidPage(page, n) ==
    \/ page \in {NoPage, LastPage}
    \/ /\ page >= 1
       /\ page <= (IF n = 0 THEN 1 ELSE (n + paginate_by - 1) \div paginate_by)

VisibleIn(slug) ==
    {pk \in DOMAIN posts : Visible(pk) /\ posts[pk].category = slug}

(* C2 as stated, of the request just answered: a category listing is
   NotFound iff the slug names no category or an unpublished one.  (The
   request that breaks it asks for page 2 of a published category whose
   listing has a single page.) *)
C2_NotFoundOnlyForSlug ==
    /\ last.response.op = "category"
         => (last.response.status = "not_found" <=> ~CategoryPublished(last.arg))
    /\ \A slug \in Slugs, page \in PageInputs :
          CategoryListView(slug, page).db = Db

(* C2 amended: a category listing is NotFound iff the slug names no
   category or an unpublished one, or the page parameter is not a page of
   the listing; otherwise it is rendered; the request changes nothing. *)
C2_NotFoundForSlugOrPage ==
    \A slug \in Slugs, page \in PageInputs :
        LET r == CategoryListView(slug, page)
        IN  /\ r.resp.status = "not_found"
                 <=> \/ ~CategoryPublished(slug)
                     \/ ~ValidPage(page, Cardinality(VisibleIn(slug)))
            /\ r.resp.status \in {"not_found", "ok"}
            /\ r.db = Db

(* C2 witness: the listing of the unpublished category "draft", which has
   a published post of the past, was just answered NotFound on its first
   page. *)
C2_Witness ==
    /\ last.response.op = "category"
    /\ last.arg = "draft"
    /\ last.response.status = "not_found"
    /\ \E pk \in DOMAIN posts :
          /\ posts[pk].category = "draft"
          /\ posts[pk].is_published
          /\ posts[pk].pub_date <= now

(* C3: for an existing username the profile listing is exactly the posts
   of that user, whatever their visibility and whoever asks; for a username
   of no user the answer is NotFound. *)
C3_ProfileListsAllOwnPosts ==
    \A username \in Usernames, requester \in Requesters :
        LET r == ProfileDetailView(requester, username, NoPage)
        IN  IF \E u \in DOMAIN users : users[u] = username
            THEN LET u == CHOOSE x \in DOMAIN users : users[x] = username
                 IN  /\ r.resp.status = "ok"
                     /\ NoRepeat(Profile_posts(u))
                     /\ Pks(Profile_posts(u))
                          = {pk \in DOMAIN posts : posts[pk].author = u}
                     /\ Cardinality(DOMAIN posts) <= paginate_by
                          => Pks(r.resp.page_obj.object_list)
                               = {pk \in DOMAIN posts : posts[pk].author = u}
            ELSE r.resp.status = "not_found"

(* C3 witness: the profile of a user who took the username "carol" was just
   served with two posts, one unpublished and one of the future, while
   another user exists. *)
C3_Witness ==
    /\ last.response.op = "profile"
    /\ last.arg = "carol"
    /\ last.response.status = "ok"
    /\ Len(last.response.page_obj.object_list) = 2
    /\ \E pk \in DOMAIN posts : ~posts[pk].is_published
    /\ \E pk \in DOMAIN posts : posts[pk].pub_date > now

Min(a, b) == IF a < b THEN a ELSE b

(* Page p of listing L as the specification describes it: ranks 10(p-1)+1 up to
   min(10p, n) of L, with the navigation flags *)
IsPageOf(page_obj, L, p) ==
    LET n     == Len(L)
        total == (n + 9) \div 10
    IN  /\ page_obj.object_list
             = [i \in 1 .. (Min(10 * p, n) - 10 * (p - 1)) |-> L[10 * (p - 1) + i]]
        /\ page_obj.has_next <=> p < total
        /\ page_obj.has_previous <=> p > 1
        /\ page_obj.num_pages = total

Descending(L) ==
    \A i, j \in 1 .. Len(L) :
        i < j => posts[L[i].pk].pub_date >= posts[L[j].pk].pub_date

(* C9: every listing is ordered by pub_date descending; for every page
   number p from 1 to ceil(n/10) the view answers with ranks 10(p-1)+1 ..
   min(10p, n), has_next iff p is not the last page and has_previous iff
   p > 1; every listed post is on exactly one page; with 25 posts page 1
   has 10 items and a next page, page 3 has 5 items and none. *)
C9_PagesPartitionListing ==
    LET index    == PostListView_get_queryset
        category == CategoryListView_get_queryset("news")
        profile  == Profile_posts(1)
        total(L) == (Len(L) + 9) \div 10
    IN  /\ Descending(index) /\ Descending(category) /\ Descending(profile)
        /\ \A p \in 1 .. total(index) :
              /\ PostListView(p).resp.status = "ok"
              /\ IsPageOf(PostListView(p).resp.page_obj, index, p)
        /\ \A p \in 1 .. total(category) :
              /\ CategoryListView("news", p).resp.status = "ok"
              /\ IsPageOf(CategoryListView("news", p).resp.page_obj, category, p)
        /\ \A p \in 1 .. total(profile) :
              /\ ProfileDetailView(Anonymous, "alice", p).resp.status = "ok"
              /\ IsPageOf(ProfileDetailView(Anonymous, "alice", p).resp.page_obj,
                          profile, p)
        /\ \A i \in 1 .. Len(index) :
              Cardinality({p \in 1 .. total(index) :
                  index[i].pk \in Pks(PostListView(p).resp.page_obj.object_list)}) = 1
        /\ \A i \in 1 .. Len(profile) :
              Cardinality({p \in 1 .. total(profile) :
                  profile[i].pk \in
                    Pks(ProfileDetailView(Anonymous, "alice", p)
                          .resp.page_obj.object_list)}) = 1
        /\ Len(index) = 25 =>
              /\ Len(PostListView(1).resp.page_obj.object_list) = 10
              /\ PostListView(1).resp.page_obj.has_next
              /\ Len(PostListView(3).resp.page_obj.object_list) = 5
              /\ ~PostListView(3).resp.page_obj.has_next

(* C9 witness: with 25 posts listed, page 3 of the index was just served:
   5 items, a previous page and no next one. *)
C9_Witness ==
    /\ Len(PostListView_get_queryset) = 25
    /\ last.response.op = "index"
    /\ last.response.status = "ok"
    /\ last.response.page_obj.number = 3
    /\ Len(last.response.page_obj.object_list) = 5
    /\ ~last.response.page_obj.has_next
    /\ last.response.page_obj.has_previous

--------------------------------------------------------------------------
(* Ownership, authentication and comments *)

Categories == {"news", "draft", NoCategory}

(* Ids of requests: the stored ones and one that names nothing *)
AnyPostId == 1 .. (MaxPosts + 1)

AnyCommentId == 1 .. (MaxComments + 1)

(* What the update and delete endpoints answer to one user *)
PostUpdates(user) ==
    {PostUpdateView(user, pk, c, d) : pk \in AnyPostId, c \in Categories, d \in Dates}

PostDeletes(user) == {PostDeleteView(user, pk) : pk \in AnyPostId}

CommentUpdates(user) ==
    {CommentUpdateView(user, p, c, t) :
        p \in AnyPostId, c \in AnyCommentId, t \in Texts}

CommentDeletes(user) ==
    {CommentDeleteView(user, p, c) : p \in AnyPostId, c \in AnyCommentId}

(* The posts and comments a result changed or removed *)
PostsTouched(r) ==
    {pk \in DOMAIN posts : pk \notin DOMAIN r.db.posts \/ r.db.posts[pk] # posts[pk]}

CommentsTouched(r) ==
    {c \in DOMAIN comments :
        c \notin DOMAIN r.db.comments \/ r.db.comments[c] # comments[c]}

(* An update or delete by an authenticated user who is not the author of
   the post or comment is refused and leaves the database as it was *)
NonAuthorRefused ==
    \A user \in UserIds :
        /\ \A pk \in DOMAIN posts, c \in Categories, d \in Dates :
              posts[pk].author # user =>
                /\ PostUpdateView(user, pk, c, d)
                     = Result(Db, PermissionDenied("post_update"))
                /\ PostDeleteView(user, pk)
                     = Result(Db, PermissionDenied("post_delete"))
        /\ \A cid \in DOMAIN comments, p \in AnyPostId, t \in Texts :
              comments[cid].author # user =>
                /\ CommentUpdateView(user, p, cid, t)
                     = Result(Db, PermissionDenied("comment_update"))
                /\ CommentDeleteView(user, p, cid)
                     = Result(Db, PermissionDenied("comment_delete"))

(* C4 as stated: a non-author's update or delete is refused and changes
   nothing, and whatever post or comment an update or delete request
   changes or removes has the requesting user as its author. *)
C4_OnlyAuthorTouches ==
    /\ NonAuthorRefused
    /\ \A user \in Requesters :
          \A r \in PostUpdates(user) \cup PostDeletes(user)
                   \cup CommentUpdates(user) \cup CommentDeletes(user) :
              /\ \A pk \in PostsTouched(r) : posts[pk].author = user
              /\ \A c \in CommentsTouched(r) : comments[c].author = user

(* C4 amended: a non-author's update or delete is refused and changes
   nothing; whatever post an update or delete request changes or removes
   has the requesting user as its author, and so has every comment it
   changes or removes, except the comments that go with a post its author
   deletes. *)
C4_OnlyAuthorTouchesButCascade ==
    /\ NonAuthorRefused
    /\ \A user \in Requesters :
          /\ \A r \in PostUpdates(user) \cup PostDeletes(user)
                      \cup CommentUpdates(user) \cup CommentDeletes(user) :
                \A pk \in PostsTouched(r) : posts[pk].author = user
          /\ \A r \in PostUpdates(user) \cup CommentUpdates(user)
                      \cup CommentDeletes(user) :
                \A c \in CommentsTouched(r) : comments[c].author = user
          /\ \A r \in PostDeletes(user) :
                \A c \in CommentsTouched(r) :
                    /\ c \notin DOMAIN r.db.comments
                    /\ comments[c].post \notin DOMAIN r.db.posts
                    /\ posts[comments[c].post].author = user

(* C4 witness: a comment delete was just refused, and the database holds a
   comment on a post of another user. *)
C4_Witness ==
    /\ last.response.op = "comment_delete"
    /\ last.response.status = "forbidden"
    /\ \E c \in DOMAIN comments :
          comments[c].author # posts[comments[c].post].author

(* C5: every mutating request of an anonymous requester is answered with
   the redirect to login and leaves the database as it was, whether or not
   the post or comment it names exists. *)
C5_AnonymousRedirectedToLogin ==
    /\ \A pk \in AnyPostId, c \in Categories, d \in Dates :
          PostUpdateView(Anonymous, pk, c, d)
            = Result(Db, RedirectToLogin("post_update"))
    /\ \A pk \in AnyPostId :
          PostDeleteView(Anonymous, pk) = Result(Db, RedirectToLogin("post_delete"))
    /\ \A pk \in AnyPostId, t \in Texts :
          add_comment(Anonymous, pk, t) = Result(Db, RedirectToLogin("add_comment"))
    /\ \A p \in AnyPostId, cid \in AnyCommentId, t \in Texts :
          /\ CommentUpdateView(Anonymous, p, cid, t)
               = Result(Db, RedirectToLogin("comment_update"))
          /\ CommentDeleteView(Anonymous, p, cid)
               = Result(Db, RedirectToLogin("comment_delete"))
    /\ \A c \in Categories, d \in Dates :
          PostCreateView(Anonymous, c, d) = Result(Db, RedirectToLogin("post_create"))
    /\ \A n \in Usernames :
          ProfileUpdateView(Anonymous, n)
            = Result(Db, RedirectToLogin("profile_update"))
    /\ last.response.status = "login_redirect" => last.response.target.view = "login"

(* C5 witness: a post update was just redirected to login while no post is
   stored, so the post it named does not exist. *)
C5_Witness ==
    /\ last.response.op = "post_update"
    /\ last.response.status = "login_redirect"
    /\ DOMAIN posts = {}

ExactCount(pk) == Cardinality({c \in DOMAIN comments : comments[c].post = pk})

CountsExact(object_list) ==
    \A i \in 1 .. Len(object_list) :
        object_list[i].comment_count = ExactCount(object_list[i].pk)

(* C6: in every reachable state the comment_count of every row of the
   index, category and profile listings, and of the page a listing view
   just served, is the number of stored comments of that post. *)
C6_CommentCountExact ==
    /\ CountsExact(PostListView_get_queryset)
    /\ \A slug \in Slugs :
          CategoryPublished(slug) => CountsExact(CategoryListView_get_queryset(slug))
    /\ \A u \in DOMAIN users : CountsExact(Profile_posts(u))
    /\ last.response.op \in {"index", "category", "profile"}
         => CountsExact(last.response.page_obj.object_list)

(* C6 witness: the index was just served with a post counted 2 and a post
   counted 0. *)
C6_Witness ==
    /\ last.response.op = "index"
    /\ \E i, j \in 1 .. Len(last.response.page_obj.object_list) :
          /\ last.response.page_obj.object_list[i].comment_count = 2
          /\ last.response.page_obj.object_list[j].comment_count = 0

(* C7: add_comment by an authenticated user.  On an existing post: a
   non-empty text stores exactly one new comment, of that user on that
   post, and changes nothing else, so the post's count grows by one; an
   empty text changes nothing; both are answered with the redirect to the
   post's detail page.  On a missing post: NotFound, nothing stored. *)
C7_AddComment ==
    \A user \in UserIds, pk \in AnyPostId, text \in Texts :
        LET r == add_comment(user, pk, text)
        IN  IF pk \in DOMAIN posts
            THEN /\ r.resp = Redirect("add_comment", "post_detail", pk, "-")
                 /\ r.db.posts = posts
                 /\ r.db.users = users
                 /\ IF text # ""
                    THEN /\ Cardinality(DOMAIN r.db.comments \ DOMAIN comments) = 1
                         /\ DOMAIN comments \subseteq DOMAIN r.db.comments
                         /\ \A c \in DOMAIN comments : r.db.comments[c] = comments[c]
                         /\ \A c \in DOMAIN r.db.comments \ DOMAIN comments :
                               r.db.comments[c]
                                 = [author |-> user, post |-> pk, text |-> text]
                         /\ Cardinality({c \in DOMAIN r.db.comments :
                                            r.db.comments[c].post = pk})
                              = ExactCount(pk) + 1
                    ELSE r.db = Db
            ELSE r = Result(Db, Http404("add_comment"))

(* C7 witness: a comment was just added to a post of the unpublished
   category, and the response redirects to that post. *)
C7_Witness ==
    /\ last.response.op = "add_comment"
    /\ last.response.status = "redirect"
    /\ \E c \in DOMAIN comments :
          /\ posts[comments[c].post].category = "draft"
          /\ last.response.target.pk = comments[c].post
          /\ c = nextCommentId - 1

(* C8: every stored comment is on a stored post; a post's author deleting
   it removes exactly the comments of that post. *)
C8_CommentsHavePost ==
    /\ \A c \in DOMAIN comments : comments[c].post \in DOMAIN posts
    /\ \A pk \in DOMAIN posts :
          LET r == PostDeleteView(posts[pk].author, pk)
          IN  /\ pk \notin DOMAIN r.db.posts
              /\ DOMAIN r.db.comments
                   = {c \in DOMAIN comments : comments[c].post # pk}
              /\ \A c \in DOMAIN r.db.comments : r.db.comments[c] = comments[c]

(* C8 witness: a post was just deleted, two comments had been added, and
   only the comment of the other post is left. *)
C8_Witness ==
    /\ last.response.op = "post_delete"
    /\ last.response.status = "redirect"
    /\ nextCommentId = 3
    /\ Cardinality(DOMAIN comments) = 1
    /\ Cardinality(DOMAIN posts) = 1

(* C10: the update and delete of a comment do not depend on the post id of
   the URL: for every user, comment id and text, any two post ids give the
   same response and the same database, and a redirect goes to the detail
   page of the comment's own post. *)
C10_PostIdOfUrlIgnored ==
    \A user \in Requesters, cid \in AnyCommentId, t \in Texts :
        LET update == [p \in AnyPostId |-> CommentUpdateView(user, p, cid, t)]
            delete == [p \in AnyPostId |-> CommentDeleteView(user, p, cid)]
            parent == [view |-> "post_detail", pk |-> comments[cid].post,
                       username |-> "-"]
        IN  /\ \A p1, p2 \in AnyPostId :
                   p1 < p2 => update[p1] = update[p2] /\ delete[p1] = delete[p2]
            /\ \A p \in AnyPostId :
                   /\ update[p].resp.status = "redirect"
                        => update[p].resp.target = parent
                   /\ delete[p].resp.status = "redirect"
                        => delete[p].resp.target = parent

(* C10 witness: a comment update whose URL named another post than the
   comment's own was just carried out and redirected to the comment's
   post. *)
C10_Witness ==
    /\ last.response.op = "comment_update"
    /\ last.response.status = "redirect"
    /\ last.post_id # last.response.target.pk
    /\ \E c \in DOMAIN comments :
          comments[c].post = last.response.target.pk /\ comments[c].text = "ok"

====
